---- MODULE Spec2Model ----
(***************************************************************************)
(* Model of the live-tracking cog of Namazu (src/cogs/live_tracking.py):   *)
(* the poll_quakes loop, the three pickled stores and the config command.  *)
(*                                                                         *)
(* Magnitudes are integers in tenths (24 is 2.4); times are epoch          *)
(* milliseconds that fit 32-bit integers.  A guild id is a small integer,  *)
(* client.guilds is visited in ascending id order.  A python dict is a     *)
(* function whose DOMAIN is the set of keys present.                       *)
(***************************************************************************)
EXTENDS Integers, Sequences, FiniteSets, TLC

VARIABLES
    guilds,              \* ids of client.guilds
    channel,             \* channel[g]: guild g has a text channel named quake-updates
    guild_prefs,         \* self.guild_prefs: guild -> MinMagnitude
    eq_notify_db,        \* self.eq_notify_db: guild -> (earthquake_id -> BOOLEAN)
    eq_db,               \* self.eq_db: earthquake_id -> stored earthquake
    disk_guild_prefs,    \* data/guild_prefs.pkl
    disk_eq_notify_db,   \* data/eq_notify_db.pkl
    disk_eq_db,          \* data/eq_db1.pkl
    pc,                  \* position of the poll_quakes task
    status,              \* resp.status of the cycle in flight, 0 before a response
    feature_list,        \* feature_list of the cycle in flight, up to its last use
    gi,                  \* guild of the notify_guild call in flight, 0 if none
    fi,                  \* index in feature_list of the feature in flight, 0 if none
    sent,                \* history: successful channel.send calls of this process, per pair
    delivered,           \* history: pairs whose channel.send ever succeeded
    undisturbed,         \* history: no command or gateway event since the cycle began
    events,              \* number of external events so far
    restarts,            \* number of process restarts so far
    loops                \* poll_quakes loops started in this process, one per cog built

vars == <<guilds, channel, guild_prefs, eq_notify_db, eq_db, disk_guild_prefs,
          disk_eq_notify_db, disk_eq_db, pc, status, feature_list, gi, fi,
          sent, delivered, undisturbed, events, restarts, loops>>

stores == <<guild_prefs, eq_notify_db, eq_db>>
disk == <<disk_guild_prefs, disk_eq_notify_db, disk_eq_db>>
cursor == <<feature_list, gi, fi>>
history == <<sent, delivered>>
world == <<guilds, channel>>

----------------------------------------------------------------------------
(* Bounds *)

\* longest feature list of a response
MaxFeed == 2

\* external events of a behaviour: iterations of the loop, config commands,
\* guilds joining, channels created or deleted, restarts of the process
MaxEvents == 3

Guilds == {1, 2}

\* client.guilds when the cog is first loaded
InitialGuilds == {{1}, {1, 2}}

Missing == "KeyError"

Feature(m, c, t, p) == [mag |-> m, code |-> c, time |-> t, place |-> p]

\* The records the feed may list: an earthquake below the default threshold and
\* two listings of an earthquake above it that differ in place.
Features ==
    { Feature(24, "a", 60000, "p"),
      Feature(50, "b", 60000, "p"), Feature(50, "b", 60000, "q") }

\* One earthquake on each side of every threshold of the severity gate.
GateFeatures ==
    { Feature(m, "a", 60000, "p") : m \in {0, 9, 10, 24, 25, 44, 45, 50} }

Statuses == {200, 500}

\* what the config command waits for: the emojis 0..4, 5 for any other emoji,
\* 6 for asyncio.TimeoutError
Choices == 0..6

Empty == << >>

Put(f, k, v) == [x \in DOMAIN f \cup {k} |-> IF x = k THEN v ELSE f[x]]

Feeds(U, n) == UNION { [1..k -> U] : k \in 0..n }

----------------------------------------------------------------------------
(* get_earthquake_data *)

formatted_dt(time_ms) == (time_ms \div 1000) \div 60

\* str(mag) of a magnitude in tenths: 50 is 5.0 and gives "5.0"
str_mag(m) ==
    IF m < 0
    THEN "-" \o ToString((0 - m) \div 10) \o "." \o ToString((0 - m) % 10)
    ELSE ToString(m \div 10) \o "." \o ToString(m % 10)

\* faulty variant: the id is built from the time as it is displayed
earthquake_id_displayed(feature) ==
    str_mag(feature.mag) \o "-" \o feature.code \o "-"
        \o ToString(formatted_dt(feature.time))

earthquake_id(feature) ==
    str_mag(feature.mag) \o "-" \o feature.code \o "-" \o ToString(feature.time)

Malformed(feature) == feature.place = Missing

eq_data(feature) ==
    [place |-> feature.place,
     magnitude |-> feature.mag,
     time |-> formatted_dt(feature.time),
     earthquake_id |-> earthquake_id(feature)]

\* python truth of self.eq_notify_db.get(str(guild.id)): present and not empty
HasRecords(ndb, g) == g \in DOMAIN ndb /\ DOMAIN ndb[g] # {}

\* faulty variant: an earthquake the guild has registered counts as reported
IsRegistered(ndb, g, id) == g \in DOMAIN ndb /\ id \in DOMAIN ndb[g]

\* faulty variant: the id is looked up under a key the record never holds
IsNotifiedWrongKey(ndb, g, id) == FALSE

\* python truth of ndb[g].get(id)
IsNotified(ndb, g, id) == g \in DOMAIN ndb /\ id \in DOMAIN ndb[g] /\ ndb[g][id]

\* faulty variant: registers the earthquake as already reported
RegisterSeenAsReported(ndb, id, G) ==
    [g \in DOMAIN ndb |->
        IF g \in G /\ HasRecords(ndb, g) /\ ~IsNotified(ndb, g, id)
        THEN Put(ndb[g], id, TRUE)
        ELSE ndb[g]]

\* faulty variant: registers False without looking for a True first
RegisterSeenAgain(ndb, id, G) ==
    [g \in DOMAIN ndb |->
        IF g \in G /\ HasRecords(ndb, g) THEN Put(ndb[g], id, FALSE) ELSE ndb[g]]

\* faulty variant: the registration replaces the record of the guild
RegisterSeenOnly(ndb, id, G) ==
    [g \in DOMAIN ndb |->
        IF g \in G /\ HasRecords(ndb, g) /\ ~IsNotified(ndb, g, id)
        THEN [x \in {id} |-> FALSE]
        ELSE ndb[g]]

RegisterSeen(ndb, id, G) ==
    [g \in DOMAIN ndb |->
        IF g \in G /\ HasRecords(ndb, g) /\ ~IsNotified(ndb, g, id)
        THEN Put(ndb[g], id, FALSE)
        ELSE ndb[g]]

----------------------------------------------------------------------------
(* save_earthquakes *)

\* faulty variant: stores without looking for the id first
PutEarthquakeOverwrites(db, data) == Put(db, data.earthquake_id, data)

PutEarthquake(db, data) ==
    IF data.earthquake_id \in DOMAIN db
    THEN db
    ELSE Put(db, data.earthquake_id, data)

RECURSIVE SaveFrom(_, _, _, _, _)
SaveFrom(list, i, db, ndb, G) ==
    IF i > Len(list) THEN [eq_db |-> db, eq_notify_db |-> ndb, raised |-> FALSE]
    ELSE IF Malformed(list[i])
    THEN [eq_db |-> db, eq_notify_db |-> ndb, raised |-> TRUE]
    ELSE SaveFrom(list, i + 1,
                  PutEarthquake(db, eq_data(list[i])),
                  RegisterSeen(ndb, earthquake_id(list[i]), G), G)

save_earthquakes(list, db, ndb, G) == SaveFrom(list, 1, db, ndb, G)

----------------------------------------------------------------------------
(* _initialize and the module-level loaders *)

DefaultMinMagnitude == 3

\* faulty variant: every guild gets the defaults
initialize_prefs_resets(prefs, G) == [g \in DOMAIN prefs \cup G |-> DefaultMinMagnitude]

initialize_prefs(prefs, G) ==
    [g \in DOMAIN prefs \cup G |->
        IF g \in DOMAIN prefs THEN prefs[g] ELSE DefaultMinMagnitude]

\* faulty variant: every guild starts from an empty record
initialize_notify_resets(ndb, G) == [g \in DOMAIN ndb \cup G |-> Empty]

initialize_notify(ndb, G) ==
    [g \in DOMAIN ndb \cup G |->
        IF g \in G /\ ~HasRecords(ndb, g) THEN Empty ELSE ndb[g]]

\* faulty variant: on_ready builds the cog itself, loaded or not
load_extension_again(n) == n + 1

\* client.load_extension('cogs.live_tracking') with n cogs built so far: a loaded
\* extension raises ExtensionAlreadyLoaded before setup is called; otherwise setup
\* builds the cog, whose _initialize starts its poll_quakes loop
load_extension(n) == IF n > 0 THEN n ELSE n + 1

----------------------------------------------------------------------------
(* notify_guild *)

\* faulty variant: the 2.5 threshold is exclusive
GateExclusive(level, mag) ==
    CASE level = 0 -> TRUE
      [] level = 1 -> mag >= 10
      [] level = 2 -> mag > 25
      [] level = 3 -> mag >= 45
      [] OTHER -> FALSE

Gate(level, mag) ==
    CASE level = 0 -> TRUE
      [] level = 1 -> mag >= 10
      [] level = 2 -> mag >= 25
      [] level = 3 -> mag >= 45
      [] OTHER -> FALSE

MinGuild(S) == CHOOSE g \in S : \A h \in S : g <= h

\* position after the last feature of guild g: the next guild of the for loop
\* of poll_quakes, or the dump of the stores
AfterGuild(g) ==
    LET later == {h \in guilds : h > g} IN
    IF later = {}
    THEN [pc |-> "persist_eq", gi |-> 0, fi |-> 0]
    ELSE [pc |-> "notify", gi |-> MinGuild(later), fi |-> 1]

\* faulty variant: the pass of a guild ends after its first feature
AfterFeatureEndsPass(g, i) == AfterGuild(g)

\* position after feature i of guild g
AfterFeature(g, i) ==
    IF i < Len(feature_list)
    THEN [pc |-> "notify", gi |-> g, fi |-> i + 1]
    ELSE AfterGuild(g)

\* faulty variant: a guild without the channel ends the for loop of poll_quakes
NoChannelEndsLoop(g, i) == [pc |-> "persist_eq", gi |-> 0, fi |-> 0]

\* `if not channel: return`
NoChannel(g, i) == AfterGuild(g)

Goto(pos) == pc' = pos.pc /\ gi' = pos.gi /\ fi' = pos.fi /\ UNCHANGED feature_list

\* an exception the task loop does not catch leaves poll_quakes: the loop ends
Stop == pc' = "stopped" /\ gi' = 0 /\ fi' = 0 /\ feature_list' = << >>

\* poll_quakes returns, or raises an exception the task loop catches: the loop
\* sleeps until its next iteration
Idle == pc' = "idle" /\ gi' = 0 /\ fi' = 0 /\ feature_list' = << >>

----------------------------------------------------------------------------
(* Actions *)

\* the first run: no file exists, the loaders create empty ones, _initialize
\* gives every guild its defaults and starts the loop
InitRest ==
    /\ disk_guild_prefs = Empty
    /\ disk_eq_notify_db = Empty
    /\ disk_eq_db = Empty
    /\ guild_prefs = initialize_prefs(Empty, guilds)
    /\ eq_notify_db = initialize_notify(Empty, guilds)
    /\ eq_db = Empty
    /\ pc = "idle"
    /\ status = 0
    /\ feature_list = << >>
    /\ gi = 0
    /\ fi = 0
    /\ sent = [p \in Guilds \X {earthquake_id(f) : f \in Features \cup GateFeatures} |-> 0]
    /\ delivered = {}
    /\ undisturbed = TRUE
    /\ events = 0
    /\ restarts = 0
    /\ loops = load_extension(0)

Init ==
    /\ guilds \in InitialGuilds
    /\ channel \in [Guilds -> BOOLEAN]
    /\ \A g \in Guilds \ guilds : ~channel[g]
    /\ InitRest

\* one guild with a quake-updates channel
GateInit ==
    /\ guilds = {1}
    /\ channel = [g \in Guilds |-> TRUE]
    /\ InitRest

\* poll_quakes up to the request: the in-memory eq_db is replaced by the file
poll_quakes ==
    /\ pc = "idle"
    /\ events < MaxEvents
    /\ events' = events + 1
    /\ eq_db' = disk_eq_db
    /\ pc' = "fetch"
    /\ status' = 0
    /\ undisturbed' = TRUE
    /\ UNCHANGED <<guild_prefs, eq_notify_db, disk, cursor, history, world, restarts, loops>>

\* the request or resp.json() raises aiohttp.ClientError (no response, status 0,
\* or a body that is not served as JSON): the task loop catches it and runs the
\* next iteration
FetchRaises ==
    /\ pc = "fetch"
    /\ status' \in {0} \cup Statuses
    /\ Idle
    /\ UNCHANGED <<stores, disk, history, world, undisturbed, events, restarts, loops>>

\* faulty variant: a bad status raises out of poll_quakes
BadStatusRaises(s) ==
    /\ status' = s
    /\ Stop
    /\ UNCHANGED <<stores, disk, history, world, undisturbed, events, restarts, loops>>

BadStatus(s) ==
    /\ status' = s
    /\ Idle
    /\ UNCHANGED <<stores, disk, history, world, undisturbed, events, restarts, loops>>

FetchBadStatus ==
    /\ pc = "fetch"
    /\ \E s \in Statuses \ {200} : BadStatus(s)

FetchOk(U, n) ==
    /\ pc = "fetch"
    /\ \E list \in Feeds(U, n) :
        /\ status' = 200
        /\ IF Len(list) = 0
           THEN Idle
           ELSE pc' = "save" /\ feature_list' = list /\ UNCHANGED <<gi, fi>>
    /\ UNCHANGED <<stores, disk, history, world, undisturbed, events, restarts, loops>>

Save ==
    /\ pc = "save"
    /\ LET r == save_earthquakes(feature_list, eq_db, eq_notify_db, guilds) IN
        /\ eq_db' = r.eq_db
        /\ eq_notify_db' = r.eq_notify_db
        /\ IF r.raised THEN Stop
           ELSE IF guilds = {} THEN Goto([pc |-> "persist_eq", gi |-> 0, fi |-> 0])
           ELSE Goto([pc |-> "notify", gi |-> MinGuild(guilds), fi |-> 1])
    /\ UNCHANGED <<guild_prefs, disk, status, history, world, undisturbed, events, restarts, loops>>

\* one iteration of the for loop of notify_guild, up to channel.send
notify_guild ==
    /\ pc = "notify"
    /\ LET feature == feature_list[fi]
           id == earthquake_id(feature)
           ndb == RegisterSeen(eq_notify_db, id, guilds)
       IN
        /\ eq_notify_db' = ndb
        /\ IF gi \notin DOMAIN ndb THEN Stop
           ELSE IF IsNotified(ndb, gi, id) THEN Goto(AfterFeature(gi, fi))
           ELSE IF ~channel[gi] THEN Goto(NoChannel(gi, fi))
           ELSE IF gi \notin DOMAIN guild_prefs THEN Stop
           ELSE IF Gate(guild_prefs[gi], feature.mag)
                THEN pc' = "send" /\ UNCHANGED cursor
                ELSE Goto(AfterFeature(gi, fi))
    /\ UNCHANGED <<guild_prefs, eq_db, disk, status, history, world, undisturbed, events, restarts, loops>>

\* faulty variant: the send is not recorded
MarkNotifiedForgets(ndb, g, id) == ndb

MarkNotified(ndb, g, id) == [ndb EXCEPT ![g] = Put(ndb[g], id, TRUE)]

SendOk ==
    /\ pc = "send"
    /\ LET id == earthquake_id(feature_list[fi]) IN
        /\ eq_notify_db' = MarkNotified(eq_notify_db, gi, id)
        /\ sent' = [sent EXCEPT ![<<gi, id>>] = @ + 1]
        /\ delivered' = delivered \cup {<<gi, id>>}
    /\ Goto(AfterFeature(gi, fi))
    /\ UNCHANGED <<guild_prefs, eq_db, disk, status, world, undisturbed, events, restarts, loops>>

\* channel.send raises discord.HTTPException: the task loop ends
SendFails ==
    /\ pc = "send"
    /\ Stop
    /\ UNCHANGED <<stores, disk, status, history, world, undisturbed, events, restarts, loops>>

\* channel.send raises OSError or aiohttp.ClientError: the task loop catches it
\* and runs the next iteration
SendDrops ==
    /\ pc = "send"
    /\ Idle
    /\ UNCHANGED <<stores, disk, status, history, world, undisturbed, events, restarts, loops>>

PersistEqDb ==
    /\ pc = "persist_eq"
    /\ disk_eq_db' = eq_db
    /\ pc' = "persist_notify"
    /\ feature_list' = << >>
    /\ UNCHANGED <<stores, disk_guild_prefs, disk_eq_notify_db, status, gi, fi,
                   history, world, undisturbed, events, restarts, loops>>

PersistNotify ==
    /\ pc = "persist_notify"
    /\ disk_eq_notify_db' = eq_notify_db
    /\ Idle
    /\ UNCHANGED <<stores, disk_guild_prefs, disk_eq_db, status,
                   history, world, undisturbed, events, restarts, loops>>

\* the event loop serves other handlers only while poll_quakes awaits
Awaiting == pc \in {"idle", "fetch", "send", "stopped"}

\* faulty variant: whatever wait_for ended with is stored
SetMinMagnitudeAny(prefs, g, choice) ==
    IF g \in DOMAIN prefs THEN [prefs EXCEPT ![g] = choice] ELSE prefs

SetMinMagnitude(prefs, g, choice) ==
    IF choice \in 0..4 /\ g \in DOMAIN prefs
    THEN [prefs EXCEPT ![g] = choice]
    ELSE prefs

config ==
    /\ Awaiting
    /\ events < MaxEvents
    /\ events' = events + 1
    /\ \E g \in guilds, choice \in Choices :
        guild_prefs' = SetMinMagnitude(guild_prefs, g, choice)
    /\ undisturbed' = FALSE
    /\ UNCHANGED <<eq_notify_db, eq_db, disk, pc, status, cursor, history, world,
                   restarts, loops>>

GuildJoin ==
    /\ Awaiting
    /\ events < MaxEvents
    /\ events' = events + 1
    /\ \E g \in Guilds \ guilds, c \in BOOLEAN :
        /\ guilds' = guilds \cup {g}
        /\ channel' = [channel EXCEPT ![g] = c]
    /\ undisturbed' = FALSE
    /\ UNCHANGED <<stores, disk, pc, status, cursor, history, restarts, loops>>

ChannelChange ==
    /\ Awaiting
    /\ events < MaxEvents
    /\ events' = events + 1
    /\ \E g \in guilds : channel' = [channel EXCEPT ![g] = ~@]
    /\ undisturbed' = FALSE
    /\ UNCHANGED <<guilds, stores, disk, pc, status, cursor, history, restarts, loops>>

\* the process ends at any point and is started again: __init__ and _initialize
Restart ==
    /\ events < MaxEvents
    /\ events' = events + 1
    /\ restarts' = restarts + 1
    /\ guild_prefs' = initialize_prefs(disk_guild_prefs, guilds)
    /\ eq_notify_db' = initialize_notify(disk_eq_notify_db, guilds)
    /\ eq_db' = disk_eq_db
    /\ Idle
    /\ status' = 0
    /\ sent' = [p \in DOMAIN sent |-> 0]
    /\ undisturbed' = TRUE
    /\ loops' = load_extension(0)
    /\ UNCHANGED <<disk, delivered, world>>

\* the gateway sends READY again after a reconnect
on_ready ==
    /\ Awaiting
    /\ events < MaxEvents
    /\ events' = events + 1
    /\ loops' = load_extension(loops)
    /\ undisturbed' = FALSE
    /\ UNCHANGED <<stores, disk, pc, status, cursor, history, world, restarts>>

Next ==
    \/ poll_quakes
    \/ FetchRaises
    \/ FetchBadStatus
    \/ FetchOk(Features, MaxFeed)
    \/ Save
    \/ notify_guild
    \/ SendOk
    \/ SendFails
    \/ SendDrops
    \/ PersistEqDb
    \/ PersistNotify
    \/ config
    \/ GuildJoin
    \/ ChannelChange
    \/ Restart

Spec == Init /\ [][Next]_vars

\* the severity gate on its own: one guild, one feature per response, every
\* magnitude next to a threshold
NextGate ==
    \/ poll_quakes
    \/ FetchOk(GateFeatures, 1)
    \/ Save
    \/ notify_guild
    \/ SendOk
    \/ PersistEqDb
    \/ PersistNotify
    \/ config

SpecGate == GateInit /\ [][NextGate]_vars

\* a well-formed record and a record without place
MalformedFeatures ==
    { Feature(50, "b", 60000, "p"), Feature(50, "c", 60000, Missing) }

\* the loop on feeds that may list a malformed record
NextMalformed ==
    \/ poll_quakes
    \/ FetchOk(MalformedFeatures, MaxFeed)
    \/ Save
    \/ notify_guild
    \/ SendOk
    \/ PersistEqDb
    \/ PersistNotify

SpecMalformed == Init /\ [][NextMalformed]_vars

\* the loop, reconnects of the gateway and restarts of the process
NextReady ==
    \/ poll_quakes
    \/ FetchOk(Features, MaxFeed)
    \/ Save
    \/ notify_guild
    \/ SendOk
    \/ PersistEqDb
    \/ PersistNotify
    \/ on_ready
    \/ Restart

SpecReady == Init /\ [][NextReady]_vars

\* what get_guild_prefs may load: any guilds, each with a MinMagnitude
LoadedPrefs == UNION { [D -> 0..4] : D \in SUBSET Guilds }

\* what get_eq_notify_db may load: any guilds, each with an empty record or a
\* record of one earthquake, reported or not
LoadedNotify ==
    UNION { [D -> UNION { [I -> BOOLEAN] : I \in SUBSET {"5.0-b-60000"} }] :
              D \in SUBSET Guilds }

\* the cog after __init__ has loaded the three files, before _initialize
InitLoaded ==
    /\ guilds \in InitialGuilds
    /\ channel = [g \in Guilds |-> FALSE]
    /\ disk_guild_prefs \in LoadedPrefs
    /\ disk_eq_notify_db \in LoadedNotify
    /\ disk_eq_db = Empty
    /\ guild_prefs = disk_guild_prefs
    /\ eq_notify_db = disk_eq_notify_db
    /\ eq_db = disk_eq_db
    /\ pc = "idle"
    /\ status = 0
    /\ feature_list = << >>
    /\ gi = 0
    /\ fi = 0
    /\ sent = [p \in Guilds \X {earthquake_id(f) : f \in Features \cup GateFeatures} |-> 0]
    /\ delivered = {}
    /\ undisturbed = TRUE
    /\ events = 0
    /\ restarts = 0
    /\ loops = 0

\* the two for loops of _initialize, run once more each time
initialize ==
    /\ events < MaxEvents
    /\ events' = events + 1
    /\ guild_prefs' = initialize_prefs(guild_prefs, guilds)
    /\ eq_notify_db' = initialize_notify(eq_notify_db, guilds)
    /\ UNCHANGED <<eq_db, disk, pc, status, cursor, history, world, undisturbed,
                   restarts, loops>>

NextInit == initialize

SpecInit == InitLoaded /\ [][NextInit]_vars

\* records that agree or differ in each of magnitude, code, time and place:
\* a negative magnitude, codes that hold the separator, times within one
\* displayed minute
IdFeatures ==
    { Feature(m, c, t, p) : m \in {0 - 5, 5, 50}, c \in {"abc", "b-6", "0-b"},
                            t \in {6, 60000, 60001, 1700000000}, p \in {"p", "q"} }

\* one cycle up to the end of save_earthquakes, on two records of any kind
NextId ==
    \/ poll_quakes
    \/ FetchOk(IdFeatures, 2)
    \/ Save

SpecId == GateInit /\ [][NextId]_vars

----------------------------------------------------------------------------
(* Properties *)

\* the step belongs to the running process (it is not a restart)
SameProcess == restarts' = restarts

IdAt(i) == earthquake_id(feature_list[i])

\* C1: within one process a pair (guild, earthquake) is successfully sent at
\* most once, whatever the feeds of the cycles.
AtMostOneDelivery == \A p \in DOMAIN sent : sent[p] <= 1

\* a later cycle meets, as the first feature of a guild, an earthquake it has
\* already sent to that guild
AtMostOneDeliveryWitness ==
    /\ pc = "notify" /\ fi = 1
    /\ sent[<<gi, IdAt(1)>>] = 1
    /\ IsNotified(eq_notify_db, gi, IdAt(1))

\* C2 (as claimed): a channel.send that fails does not end the cycle: from a
\* send in flight the cycle goes on to the next pair or to the dump of the stores.
FailureDoesNotAbortCycle ==
    [][(pc = "send" /\ SameProcess) => pc' \in {"send", "notify", "persist_eq"}]_vars

\* C3: a pair is True in eq_notify_db only if a send for it succeeded before.
NotifiedOnlyAfterSend ==
    \A g \in DOMAIN eq_notify_db : \A id \in DOMAIN eq_notify_db[g] :
        eq_notify_db[g][id] => <<g, id>> \in delivered

\* a guild with one pair sent and another one registered and not sent
NotifiedOnlyAfterSendWitness ==
    \E g \in DOMAIN eq_notify_db : \E id1, id2 \in DOMAIN eq_notify_db[g] :
        /\ eq_notify_db[g][id1] /\ <<g, id1>> \in delivered
        /\ ~eq_notify_db[g][id2] /\ <<g, id2>> \notin delivered

\* C4 (as claimed): a failed channel.send never ends the polling loop, so that a
\* later cycle can send again.
FailureDoesNotStopLoop ==
    [][(pc = "send" /\ SameProcess) => pc' # "stopped"]_vars

\* the table of the specification, magnitudes in tenths
GateTable(level, mag) ==
    \/ level = 0
    \/ level = 1 /\ mag >= 10
    \/ level = 2 /\ mag >= 25
    \/ level = 3 /\ mag >= 45

\* notify_guild reaches the match statement for the pair in flight
ReachesGate ==
    /\ pc = "notify"
    /\ gi \in DOMAIN eq_notify_db
    /\ gi \in DOMAIN guild_prefs
    /\ ~IsNotified(eq_notify_db, gi, IdAt(fi))
    /\ channel[gi]

\* C5: for a pair that reaches the gate, channel.send is called exactly when the
\* table lets the magnitude pass the guild's level; level 4 never sends.
GateFollowsTable ==
    [][(ReachesGate /\ SameProcess) =>
         ((pc' = "send") <=> GateTable(guild_prefs[gi], feature_list[fi].mag))]_vars

\* a magnitude 2.5 earthquake is being sent to a guild of level 2
GateFollowsTableWitness ==
    pc = "send" /\ guild_prefs[gi] = 2 /\ feature_list[fi].mag = 25

\* C6: when the dispatch of an undisturbed cycle is complete, a guild without
\* the channel has kept no guild with the channel from any earthquake of the
\* feed that passes its gate, whichever of the two is visited first.
Isolation ==
    (pc = "persist_eq" /\ undisturbed) =>
        \A a, b \in guilds :
            (~channel[a] /\ channel[b] /\ b \in DOMAIN guild_prefs) =>
                \A i \in 1..Len(feature_list) :
                    Gate(guild_prefs[b], feature_list[i].mag) =>
                        IsNotified(eq_notify_db, b, IdAt(i))

\* the guild without the channel is visited first and the other one has got an
\* earthquake of this feed
IsolationWitness ==
    /\ pc = "persist_eq" /\ undisturbed
    /\ \E a, b \in guilds :
        /\ a < b /\ ~channel[a] /\ channel[b]
        /\ \E i \in 1..Len(feature_list) :
            /\ Gate(guild_prefs[b], feature_list[i].mag)
            /\ sent[<<b, IdAt(i)>>] = 1

\* the first listing of an id in the feature list
FirstListing(id) ==
    feature_list[CHOOSE i \in 1..Len(feature_list) :
                    /\ IdAt(i) = id
                    /\ \A j \in 1..(i - 1) : IdAt(j) # id]

\* C7: save_earthquakes leaves every earthquake already stored as it is, and
\* stores an id it meets for the first time once, from its first listing.
PutIsIdempotent ==
    [][(pc = "save" /\ SameProcess) =>
         /\ \A id \in DOMAIN eq_db : id \in DOMAIN eq_db' /\ eq_db'[id] = eq_db[id]
         /\ \A i \in 1..Len(feature_list) :
                IdAt(i) \notin DOMAIN eq_db =>
                    /\ IdAt(i) \in DOMAIN eq_db'
                    /\ eq_db'[IdAt(i)] = eq_data(FirstListing(IdAt(i)))]_vars

\* a feed has been saved that lists, with another place, an earthquake an
\* earlier cycle has stored and dumped
PutIsIdempotentWitness ==
    /\ pc = "notify"
    /\ \E i \in 1..Len(feature_list) :
        /\ IdAt(i) \in DOMAIN disk_eq_db
        /\ IdAt(i) \in DOMAIN eq_db
        /\ eq_db[IdAt(i)] = disk_eq_db[IdAt(i)]
        /\ eq_db[IdAt(i)].place # feature_list[i].place

\* every pair the dumped eq_notify_db holds as True is True in memory, and no
\* send is in flight for such a pair
DumpedStayDelivered ==
    /\ \A g \in DOMAIN disk_eq_notify_db : \A id \in DOMAIN disk_eq_notify_db[g] :
          disk_eq_notify_db[g][id] => IsNotified(eq_notify_db, g, id)
    /\ pc = "send" => ~IsNotified(disk_eq_notify_db, gi, IdAt(fi))

\* C8: the dump at the end of a cycle writes every pair that is True in memory,
\* and from then on, before and after a restart, a dumped True pair is True in
\* memory and is not sent again.
RestartKeepsDelivered ==
    [][/\ (pc = "persist_notify" /\ SameProcess) =>
            \A g \in DOMAIN eq_notify_db : \A id \in DOMAIN eq_notify_db[g] :
                eq_notify_db[g][id] => IsNotified(disk_eq_notify_db', g, id)
       /\ DumpedStayDelivered']_vars

\* after a restart a cycle meets an earthquake whose pair was dumped as True
RestartKeepsDeliveredWitness ==
    /\ restarts > 0
    /\ pc = "notify"
    /\ IsNotified(disk_eq_notify_db, gi, IdAt(fi))
    /\ sent[<<gi, IdAt(fi)>>] = 0

\* C9 (as claimed): a restart keeps the MinMagnitude of every guild.
RestartKeepsThreshold ==
    [][(restarts' = restarts + 1) =>
         \A g \in DOMAIN guild_prefs :
            g \in DOMAIN guild_prefs' /\ guild_prefs'[g] = guild_prefs[g]]_vars

MalformedRecordIsSkipped ==
    [][(pc = "save" /\ SameProcess) =>
         /\ pc' \in {"notify", "persist_eq"}
         /\ \A i \in 1..Len(feature_list) :
                ~Malformed(feature_list[i]) => IdAt(i) \in DOMAIN eq_db']_vars

GetOrCreateDefaultTwo ==
    [][(events' = events + 1) =>
         /\ DOMAIN guild_prefs' = DOMAIN guild_prefs \cup guilds
         /\ \A g \in DOMAIN guild_prefs' :
                guild_prefs'[g] = IF g \in DOMAIN guild_prefs THEN guild_prefs[g] ELSE 2
         /\ DOMAIN eq_notify_db' = DOMAIN eq_notify_db \cup guilds
         /\ \A g \in DOMAIN eq_notify_db' :
                eq_notify_db'[g] = IF g \in DOMAIN eq_notify_db THEN eq_notify_db[g]
                                   ELSE Empty]_vars

\* C13 (amended): _initialize gives a guild without a record MinMagnitude 3 and
\* an empty record of earthquakes, and leaves every record that exists as it
\* is; run again, it changes nothing.
GetOrCreateDefaultThree ==
    [][(events' = events + 1) =>
         /\ DOMAIN guild_prefs' = DOMAIN guild_prefs \cup guilds
         /\ \A g \in DOMAIN guild_prefs' :
                guild_prefs'[g] = IF g \in DOMAIN guild_prefs THEN guild_prefs[g] ELSE 3
         /\ DOMAIN eq_notify_db' = DOMAIN eq_notify_db \cup guilds
         /\ \A g \in DOMAIN eq_notify_db' :
                eq_notify_db'[g] = IF g \in DOMAIN eq_notify_db THEN eq_notify_db[g]
                                   ELSE Empty
         /\ events > 0 => UNCHANGED stores]_vars

\* _initialize has run twice on files that hold guild 1 with MinMagnitude 0 and a
\* reported earthquake and do not hold guild 2
GetOrCreateDefaultThreeWitness ==
    /\ events = 2
    /\ guilds = {1, 2}
    /\ 2 \notin DOMAIN disk_guild_prefs /\ 2 \notin DOMAIN disk_eq_notify_db
    /\ 1 \in DOMAIN disk_guild_prefs /\ disk_guild_prefs[1] = 0
    /\ IsNotified(disk_eq_notify_db, 1, "5.0-b-60000")
    /\ guild_prefs = [g \in {1, 2} |-> IF g = 1 THEN 0 ELSE 3]
    /\ eq_notify_db[1] = disk_eq_notify_db[1] /\ eq_notify_db[2] = Empty

\* the pair (g, id) is True in the eq_notify_db of the process
Reported(g, id) ==
    /\ g \in DOMAIN eq_notify_db
    /\ id \in DOMAIN eq_notify_db[g]
    /\ eq_notify_db[g][id] = TRUE

\* C14 (as claimed): when the dispatch of an undisturbed cycle is complete, every
\* earthquake an earlier cycle has stored and registered for a guild as not
\* reported, and that passes the guild's present gate, is reported to the guild
\* if it has the channel.
BacklogIsDelivered ==
    (pc = "persist_eq" /\ undisturbed) =>
        \A g \in guilds : \A id \in DOMAIN disk_eq_db :
            (/\ channel[g]
             /\ g \in DOMAIN guild_prefs
             /\ g \in DOMAIN eq_notify_db /\ id \in DOMAIN eq_notify_db[g]
             /\ Gate(guild_prefs[g], disk_eq_db[id].magnitude)) => Reported(g, id)

\* C14 (amended): the same for the earthquakes of the backlog that the feed of
\* the cycle lists again.
RelistedBacklogIsDelivered ==
    (pc = "persist_eq" /\ undisturbed) =>
        \A g \in guilds : \A i \in 1..Len(feature_list) :
            (/\ channel[g]
             /\ g \in DOMAIN guild_prefs
             /\ IdAt(i) \in DOMAIN disk_eq_db
             /\ Gate(guild_prefs[g], feature_list[i].mag)) => Reported(g, IdAt(i))

\* an earthquake below the default threshold was dumped as not reported to a
\* guild, and a cycle that lists it again has sent it to that guild
RelistedBacklogIsDeliveredWitness ==
    /\ pc = "persist_eq" /\ undisturbed
    /\ \E g \in guilds, i \in 1..Len(feature_list) :
        /\ IdAt(i) \in DOMAIN disk_eq_db
        /\ g \in DOMAIN disk_eq_notify_db
        /\ IdAt(i) \in DOMAIN disk_eq_notify_db[g]
        /\ ~disk_eq_notify_db[g][IdAt(i)]
        /\ ~Gate(DefaultMinMagnitude, feature_list[i].mag)
        /\ sent[<<g, IdAt(i)>>] = 1
        /\ Reported(g, IdAt(i))

EmptyFeedCycleIsNoOp ==
    [][/\ (pc = "idle" /\ pc' = "fetch") => UNCHANGED <<stores, disk, history>>
       /\ (pc = "fetch" /\ status' = 200 /\ feature_list' = << >>) =>
            (pc' = "idle" /\ UNCHANGED <<stores, disk, history>>)]_vars

\* C17 (as claimed): between the first gate of a cycle and the end of its
\* dispatch no step of the process changes guild_prefs.
NoMutationInFlight ==
    [][(pc \in {"notify", "send"} /\ SameProcess) => guild_prefs' = guild_prefs]_vars

\* C18: in the running process a pair that is True in eq_notify_db is True after
\* every step: no step resets it to False or removes it.
DeliveredIsTerminal ==
    [][SameProcess =>
         \A g \in DOMAIN eq_notify_db : \A id \in DOMAIN eq_notify_db[g] :
            eq_notify_db[g][id] =>
                /\ g \in DOMAIN eq_notify_db'
                /\ id \in DOMAIN eq_notify_db'[g]
                /\ eq_notify_db'[g][id] = TRUE]_vars

\* a later cycle has saved a feed that lists an earthquake again whose pair an
\* earlier cycle has dumped as True, and the dispatch is at that earthquake
DeliveredIsTerminalWitness ==
    /\ restarts = 0
    /\ pc = "notify"
    /\ gi \in DOMAIN disk_eq_notify_db
    /\ IdAt(fi) \in DOMAIN disk_eq_notify_db[gi]
    /\ disk_eq_notify_db[gi][IdAt(fi)]
    /\ Reported(gi, IdAt(fi))

\* C19 (as claimed): the two files are written in one step: a step that changes
\* one of them leaves both equal to the stores of the process.
FlushIsAtomic ==
    [][(disk_eq_db' # disk_eq_db \/ disk_eq_notify_db' # disk_eq_notify_db) =>
         (disk_eq_db' = eq_db /\ disk_eq_notify_db' = eq_notify_db)]_vars

\* C20 (as claimed): save_earthquakes, and get_earthquake_data in it, leave
\* eq_notify_db as it is.
SaveKeepsNotifyDb ==
    [][(pc = "save" /\ SameProcess) => eq_notify_db' = eq_notify_db]_vars

\* the ids of the feed in flight
Listed == {IdAt(i) : i \in 1..Len(feature_list)}

\* C20 (amended): save_earthquakes, and get_earthquake_data in it and in
\* notify_guild, only add to eq_notify_db: every entry stays as it is, and an
\* entry that is new is False, for an id of the feed, unless it is the pair
\* whose channel.send has just returned.
NormalizingOnlyRegisters ==
    [][(pc \in {"save", "notify", "send"} /\ SameProcess) =>
         /\ DOMAIN eq_notify_db' = DOMAIN eq_notify_db
         /\ \A g \in DOMAIN eq_notify_db :
              /\ \A id \in DOMAIN eq_notify_db[g] :
                    /\ id \in DOMAIN eq_notify_db'[g]
                    /\ eq_notify_db'[g][id] # eq_notify_db[g][id] =>
                          (pc = "send" /\ g = gi /\ id = IdAt(fi))
              /\ \A id \in DOMAIN eq_notify_db'[g] \ DOMAIN eq_notify_db[g] :
                    \/ eq_notify_db'[g][id] = FALSE /\ id \in Listed /\ pc # "send"
                    \/ pc = "send" /\ g = gi /\ id = IdAt(fi)]_vars

\* the save of a feed has registered, for a guild, an earthquake as not reported
NormalizingOnlyRegistersWitness ==
    /\ pc = "notify" /\ fi = 1 /\ gi = MinGuild(guilds)
    /\ \E g \in DOMAIN eq_notify_db : \E id \in Listed :
        /\ g \in DOMAIN disk_eq_notify_db
        /\ id \in DOMAIN eq_notify_db[g] \ DOMAIN disk_eq_notify_db[g]
        /\ eq_notify_db[g][id] = FALSE

\* C21 (as claimed): the dispatch for a guild finds or creates the records of
\* the guild and does not end the loop because one is missing.
LateGuildGetsRecord ==
    [][(pc = "notify" /\ SameProcess) =>
         /\ pc' # "stopped"
         /\ gi \in DOMAIN eq_notify_db'
         /\ gi \in DOMAIN guild_prefs']_vars

\* C22 (as claimed): channel.send is called only for an earthquake that was
\* not in the Event Store when the cycle started.
OnlyNewEventsAreSent == pc = "send" => IdAt(fi) \notin DOMAIN disk_eq_db

\* C22 (amended): channel.send is called only for an earthquake of the feed and
\* a guild it is not reported to, and that this process has not sent it to.
OnlyUnreportedPairsAreSent ==
    pc = "send" =>
        /\ fi \in 1..Len(feature_list)
        /\ ~Reported(gi, IdAt(fi))
        /\ sent[<<gi, IdAt(fi)>>] = 0

\* an earthquake an earlier cycle has stored, and reported to another guild, is
\* being sent
OnlyUnreportedPairsAreSentWitness ==
    /\ pc = "send"
    /\ IdAt(fi) \in DOMAIN disk_eq_db
    /\ \E h \in guilds \ {gi} : Reported(h, IdAt(fi))

\* C23 (as claimed): no step removes or changes an earthquake of eq_db, and the
\* ids of the eq_db file never shrink.
EventStoreIsAppendOnly ==
    [][/\ \A id \in DOMAIN eq_db : id \in DOMAIN eq_db' /\ eq_db'[id] = eq_db[id]
       /\ DOMAIN disk_eq_db \subseteq DOMAIN disk_eq_db']_vars

\* C24: when the dispatch of an undisturbed cycle is complete, every guild with
\* the channel has a threshold, and every earthquake of the feed that passes
\* its gate is reported to it: sent to it once by this process, or not sent
\* by this process and loaded as reported.
CleanCycleIsComplete ==
    (pc = "persist_eq" /\ undisturbed) =>
        \A g \in guilds : channel[g] =>
            /\ g \in DOMAIN guild_prefs
            /\ \A i \in 1..Len(feature_list) :
                  Gate(guild_prefs[g], feature_list[i].mag) =>
                    /\ Reported(g, IdAt(i))
                    /\ \/ sent[<<g, IdAt(i)>>] = 1
                       \/ /\ sent[<<g, IdAt(i)>>] = 0
                          /\ g \in DOMAIN disk_eq_notify_db
                          /\ IdAt(i) \in DOMAIN disk_eq_notify_db[g]
                          /\ disk_eq_notify_db[g][IdAt(i)]

\* a cycle is complete whose feed lists, for one guild, an earthquake dumped as
\* reported and an earthquake this cycle has sent
CleanCycleIsCompleteWitness ==
    /\ pc = "persist_eq" /\ undisturbed
    /\ \E g \in guilds, i, j \in 1..Len(feature_list) :
        /\ channel[g]
        /\ Reported(g, IdAt(i)) /\ Reported(g, IdAt(j))
        /\ g \in DOMAIN disk_eq_notify_db
        /\ IdAt(i) \in DOMAIN disk_eq_notify_db[g] /\ disk_eq_notify_db[g][IdAt(i)]
        /\ IdAt(j) \notin DOMAIN disk_eq_notify_db[g]
        /\ sent[<<g, IdAt(j)>>] = 1

\* the two records agree on magnitude, code and time
SameKey(f, g) == f.mag = g.mag /\ f.code = g.code /\ f.time = g.time

\* C25: the id is '<mag>-<code>-<time>': two records of a feed get the same id
\* exactly when they agree on magnitude, code and time in milliseconds,
\* whatever their place and although the displayed time is the same for
\* times of one minute; the earthquakes are stored under these ids.
IdIsTheKey ==
    pc = "notify" =>
        /\ \A i, j \in 1..Len(feature_list) :
              (IdAt(i) = IdAt(j)) <=> SameKey(feature_list[i], feature_list[j])
        /\ \A i \in 1..Len(feature_list) :
              /\ IdAt(i) \in DOMAIN eq_db
              /\ eq_db[IdAt(i)].earthquake_id = IdAt(i)
              /\ SameKey(feature_list[i], Feature(50, "abc", 1700000000, "p")) =>
                    IdAt(i) = "5.0-abc-1700000000"
              /\ SameKey(feature_list[i], Feature(0 - 5, "b-6", 6, "p")) =>
                    IdAt(i) = "-0.5-b-6-6"
              /\ SameKey(feature_list[i], Feature(5, "0-b", 60001, "p")) =>
                    IdAt(i) = "0.5-0-b-60001"
        /\ Cardinality(DOMAIN eq_db) <= Len(feature_list)

\* a feed listed one earthquake twice with two places, and it is stored once
\* under '5.0-abc-1700000000'
IdIsTheKeyWitness ==
    /\ pc = "notify"
    /\ Len(feature_list) = 2
    /\ SameKey(feature_list[1], feature_list[2])
    /\ feature_list[1].place # feature_list[2].place
    /\ DOMAIN eq_db = {"5.0-abc-1700000000"}

====
